---- MODULE Spec2Model ----
(***************************************************************************)
(* String Analyzer Service: the string-analysis pipeline (utils.js), the   *)
(* natural-language filter parser (utils.js), the JSON-file store (db.js)  *)
(* and the HTTP routes that tie them together (routes.js).                 *)
(*                                                                         *)
(* JavaScript strings are TLA+ strings over printable ASCII; a character   *)
(* is a string of length one.  JavaScript numbers are kept in fixed point, *)
(* Scale sub-units to the unit, so that a non-integer such as 1.5 is a     *)
(* value of the model.  An optional value (undefined / null / a missing    *)
(* property) is a sequence of length zero or one.                          *)
(***************************************************************************)
EXTENDS Integers, Sequences, FiniteSets, TLC

VARIABLES DB, disk, now, failures, resp, input, parsed

vars == <<DB, disk, now, failures, resp, input, parsed>>

-----------------------------------------------------------------------------
(* Bounds of the model.                                                    *)

MaxRecords == 2
MaxClock == 1
MaxFailures == 1
MaxPhrases == 2
MaxParams == 2

-----------------------------------------------------------------------------
(* Characters and strings.                                                 *)

Scale == 10

\* printable ASCII, codes 32..95 and 97..126
PrintableLow == " !\"#$%&'()*+,-./0123456789:;<=>?@ABCDEFGHIJKLMNOPQRSTUVWXYZ[\\]^_"
PrintableHigh == "abcdefghijklmnopqrstuvwxyz{|}~"

Char(s, i) == SubSeq(s, i, i)

CharsOf(s) == {Char(s, i) : i \in 1..Len(s)}

CharCodes ==
    [c \in CharsOf(PrintableLow) \cup CharsOf(PrintableHigh) |->
        IF c \in CharsOf(PrintableLow)
        THEN 31 + (CHOOSE i \in 1..Len(PrintableLow) : Char(PrintableLow, i) = c)
        ELSE 96 + (CHOOSE i \in 1..Len(PrintableHigh) : Char(PrintableHigh, i) = c)]

charCodeAt(c) == CharCodes[c]

fromCharCode(n) ==
    IF n < 96 THEN Char(PrintableLow, n - 31) ELSE Char(PrintableHigh, n - 96)

UpperChars == CharsOf("ABCDEFGHIJKLMNOPQRSTUVWXYZ")
LowerChars == CharsOf("abcdefghijklmnopqrstuvwxyz")
DigitChars == CharsOf("0123456789")
SpaceChars == {" "}
\* \w of a JavaScript regular expression
WordChars == UpperChars \cup LowerChars \cup DigitChars \cup {"_"}

Some(v) == <<v>>
None == <<>>

Min(a, b) == IF a < b THEN a ELSE b
Max(a, b) == IF a > b THEN a ELSE b

LowerCased ==
    [c \in DOMAIN CharCodes |->
        IF c \in UpperChars THEN fromCharCode(charCodeAt(c) + 32) ELSE c]

lowerChar(c) == LowerCased[c]

RECURSIVE toLowerCase(_)
toLowerCase(s) ==
    IF s = "" THEN "" ELSE lowerChar(Head(s)) \o toLowerCase(Tail(s))

trim(s) ==
    LET keep == {i \in 1..Len(s) : Char(s, i) \notin SpaceChars}
    IN  IF keep = {} THEN ""
        ELSE SubSeq(s, CHOOSE i \in keep : \A j \in keep : i <= j,
                       CHOOSE i \in keep : \A j \in keep : i >= j)

hexLower(n) ==
    Char("0123456789abcdef", (n \div 16) + 1) \o Char("0123456789abcdef", (n % 16) + 1)

hexUpper(n) ==
    Char("0123456789ABCDEF", (n \div 16) + 1) \o Char("0123456789ABCDEF", (n % 16) + 1)

\* value of a hexadecimal digit, -1 when c is not one
HexValues ==
    [c \in DOMAIN CharCodes |->
        LET hits == {i \in 1..16 : Char("0123456789abcdef", i) = lowerChar(c)}
        IN  IF hits = {} THEN -1 ELSE (CHOOSE i \in hits : TRUE) - 1]

hexValue(c) == HexValues[c]

-----------------------------------------------------------------------------
(* utils.js: hashing and metrics.                                          *)

\* SHA-256 is modelled as a collision-free digest: a non-empty hex string
\* made of a fixed block and the hex rendering of the UTF-8 bytes of the
\* value (ASCII here), no normalisation.
RECURSIVE hexBytes(_)
hexBytes(value) ==
    IF value = "" THEN "" ELSE hexLower(charCodeAt(Head(value))) \o hexBytes(Tail(value))

sha256Hex(value) == "e3b0" \o hexBytes(value)

charLength(value) == Len(value)

charFrequencyMap(value) ==
    [ch \in CharsOf(value) |-> Cardinality({i \in 1..Len(value) : Char(value, i) = ch})]

uniqueCharacters(value) == Cardinality(CharsOf(value))

\* value.trim().split(/\s+/).filter(Boolean).length: the number of maximal
\* runs of non-whitespace characters
wordCount(value) ==
    IF value = "" THEN 0
    ELSE LET t == trim(value)
         IN  IF t = "" THEN 0
             ELSE Cardinality({i \in 1..Len(t) :
                     /\ Char(t, i) \notin SpaceChars
                     /\ (i = 1 \/ Char(t, i - 1) \in SpaceChars)})

isPalindrome(value) ==
    LET lower == toLowerCase(value)
        n == Len(lower)
    IN  \A i \in 1..n : (i < n + 1 - i) => Char(lower, i) = Char(lower, n + 1 - i)

analyzeString(value) ==
    [length |-> charLength(value),
     is_palindrome |-> isPalindrome(value),
     unique_characters |-> uniqueCharacters(value),
     word_count |-> wordCount(value),
     sha256_hash |-> sha256Hex(value),
     character_frequency_map |-> charFrequencyMap(value)]

-----------------------------------------------------------------------------
(* Regular-expression matching as String.prototype.match / RegExp.test do  *)
(* it: the leftmost match, greedy quantifiers.                             *)

StartsAt(text, pat, i) ==
    /\ i >= 1
    /\ i + Len(pat) - 1 <= Len(text)
    /\ SubSeq(text, i, i + Len(pat) - 1) = pat

Least(S) == CHOOSE i \in S : \A j \in S : i <= j

IsWordAt(text, i) == i >= 1 /\ i <= Len(text) /\ Char(text, i) \in WordChars

\* \b between the characters i-1 and i
Boundary(text, i) == IsWordAt(text, i - 1) # IsWordAt(text, i)

\* /\bWORD\b/.test(text)
testWord(text, w) ==
    \E i \in 1..Len(text) :
        StartsAt(text, w, i) /\ Boundary(text, i) /\ Boundary(text, i + Len(w))

\* /PHRASE/.test(text)
testPhrase(text, pat) == \E i \in 1..Len(text) : StartsAt(text, pat, i)

\* text.match(/PREFIX(\d+)/): the captured digits, None when no match
matchDigits(text, prefix) ==
    LET at == {i \in 1..Len(text) :
                  /\ StartsAt(text, prefix, i)
                  /\ i + Len(prefix) <= Len(text)
                  /\ Char(text, i + Len(prefix)) \in DigitChars}
    IN  IF at = {} THEN None
        ELSE LET b == Least(at) + Len(prefix)
                 e == Least({k \in b..Len(text) :
                            k = Len(text) \/ Char(text, k + 1) \notin DigitChars})
             IN  Some(SubSeq(text, b, e))

\* text.match(/PREFIX(C)/) for a one-character class C: the captured character
matchChar(text, prefix, class) ==
    LET at == {i \in 1..Len(text) :
                  /\ StartsAt(text, prefix, i)
                  /\ i + Len(prefix) <= Len(text)
                  /\ Char(text, i + Len(prefix)) \in class}
    IN  IF at = {} THEN None ELSE Some(Char(text, Least(at) + Len(prefix)))

\* text.match(/['"]([a-z0-9])['"]/)
matchQuoted(text) ==
    LET q == {"'", "\""}
        at == {i \in 1..Len(text) :
                  /\ i + 2 <= Len(text)
                  /\ Char(text, i) \in q
                  /\ Char(text, i + 1) \in LowerChars \cup DigitChars
                  /\ Char(text, i + 2) \in q}
    IN  IF at = {} THEN None ELSE Some(Char(text, Least(at) + 1))

RECURSIVE parseInt(_)
parseInt(digits) ==
    IF digits = "" THEN 0
    ELSE parseInt(SubSeq(digits, 1, Len(digits) - 1)) * 10
           + (charCodeAt(Char(digits, Len(digits))) - 48)

-----------------------------------------------------------------------------
(* utils.js: parseNaturalLanguage.  A filters object is a function from    *)
(* the names of its present fields; numbers are in fixed point.            *)

Num(i) == i * Scale

NoFilters == <<>>

Has(filters, k) == k \in DOMAIN filters

Set(filters, k, v) == (k :> v) @@ filters

palindromeRule(filters, text) ==
    IF testWord(text, "palindromic") \/ testWord(text, "palindrome")
    THEN Set(filters, "is_palindrome", TRUE) ELSE filters

wordRule(filters, text) ==
    IF testWord(text, "single word") \/ testWord(text, "one word")
    THEN Set(filters, "word_count", Num(1)) ELSE filters

longerRule(filters, text) ==
    LET longerMatch == matchDigits(text, "longer than ")
    IN  IF longerMatch # None
        THEN Set(filters, "min_length", Num(parseInt(longerMatch[1]) + 1))
        ELSE filters

\* 'at least N' overwriting the floor instead of raising it
atLeastRule_overwrites(filters, text) ==
    LET atLeast == matchDigits(text, "at least ")
    IN  IF atLeast # None
        THEN Set(filters, "min_length", Num(parseInt(atLeast[1])))
        ELSE filters

atLeastRule(filters, text) ==
    LET atLeast == matchDigits(text, "at least ")
    IN  IF atLeast # None
        THEN Set(filters, "min_length",
                 Max(IF Has(filters, "min_length") THEN filters["min_length"] ELSE 0,
                     Num(parseInt(atLeast[1]))))
        ELSE filters

shorterRule(filters, text) ==
    LET shorterMatch == matchDigits(text, "shorter than ")
    IN  IF shorterMatch # None
        THEN Set(filters, "max_length", Num(parseInt(shorterMatch[1]) - 1))
        ELSE filters

\* lines 127-141: the value of `contains`, None for null
containsOf(text) ==
    LET byPhrase == matchChar(text, "containing the letter ", WordChars)
        simple == matchChar(text, "containing ", LowerChars \cup DigitChars)
        quoted == matchQuoted(text)
    IN  IF byPhrase # None THEN byPhrase
        ELSE IF simple # None THEN simple
        ELSE IF quoted # None THEN quoted
        ELSE IF testPhrase(text, "first vowel") THEN Some("a")
        ELSE None

containsRule(filters, text) ==
    LET contains == containsOf(text)
    IN  IF contains # None THEN Set(filters, "contains_character", contains[1])
        ELSE filters

\* lines 91-142: the filters object before the two final checks
accumulate(text) ==
    containsRule(shorterRule(atLeastRule(longerRule(wordRule(
        palindromeRule(NoFilters, text), text), text), text), text), text)

Conflicting(filters) ==
    /\ Has(filters, "min_length")
    /\ Has(filters, "max_length")
    /\ filters["min_length"] > filters["max_length"]

Thrown(status, message) == [status |-> status, message |-> message, filters |-> NoFilters]

Returned(filters) == [status |-> 200, message |-> "", filters |-> filters]

\* the parser without its final conflict check
parseNaturalLanguage_unchecked(query) ==
    IF Len(query) # 1 \/ query[1] = ""
    THEN Thrown(400, "query must be a non-empty string")
    ELSE LET filters == accumulate(trim(toLowerCase(query[1])))
         IN  IF DOMAIN filters = {}
             THEN Thrown(400, "Unable to parse natural language query")
             ELSE Returned(filters)

\* query: None for undefined, <<s>> for the string s, a longer sequence for
\* an array (a repeated query parameter)
parseNaturalLanguage(query) ==
    IF Len(query) # 1 \/ query[1] = ""
    THEN Thrown(400, "query must be a non-empty string")
    ELSE LET filters == accumulate(trim(toLowerCase(query[1])))
         IN  IF DOMAIN filters = {}
             THEN Thrown(400, "Unable to parse natural language query")
             ELSE IF Conflicting(filters)
             THEN Thrown(422, "Parsed filters are conflicting (min_length > max_length)")
             ELSE Returned(filters)

-----------------------------------------------------------------------------
(* db.js: the store.  DB is the in-memory object, as the sequence of its   *)
(* records in property (insertion) order; disk is what loadDb would read   *)
(* from the data file.  created_at is the millisecond timestamp that the   *)
(* ISO string renders and new Date() reads back.                           *)

Range(seq) == {seq[i] : i \in 1..Len(seq)}

Ids(db) == {db[i].id : i \in 1..Len(db)}

\* fs.writeFileSync either writes the whole file, or throws because the file
\* could not be opened for writing, which leaves it untouched
IoOutcomes == {"ok", "untouched"}

saveDb(db, onDisk, io) ==
    CASE io = "ok" -> [threw |-> "", disk |-> db]
      [] io = "untouched" -> [threw |-> "EIO", disk |-> onDisk]

\* a lookup that never finds the record
getById_blind(db, id) == None

getById(db, id) ==
    IF id \in Ids(db) THEN Some(db[CHOOSE i \in 1..Len(db) : db[i].id = id]) ELSE None

insertRecord(db, onDisk, record, io) ==
    IF record.id = "" THEN [threw |-> "Invalid record", DB |-> db, disk |-> onDisk]
    ELSE IF getById(db, record.id) # None
    THEN [threw |-> "EXISTS", DB |-> db, disk |-> onDisk]
    ELSE LET next == Append(db, record)
             saved == saveDb(next, onDisk, io)
         IN  [threw |-> saved.threw, DB |-> next, disk |-> saved.disk]

\* a delete that empties the store
deleteById_clears(db, onDisk, id, io) ==
    IF getById(db, id) = None
    THEN [threw |-> "", ok |-> FALSE, DB |-> db, disk |-> onDisk]
    ELSE LET saved == saveDb(<<>>, onDisk, io)
         IN  [threw |-> saved.threw, ok |-> saved.threw = "", DB |-> <<>>, disk |-> saved.disk]

deleteById(db, onDisk, id, io) ==
    IF getById(db, id) = None
    THEN [threw |-> "", ok |-> FALSE, DB |-> db, disk |-> onDisk]
    ELSE LET next == SelectSeq(db, LAMBDA r : r.id # id)
             saved == saveDb(next, onDisk, io)
         IN  [threw |-> saved.threw, ok |-> saved.threw = "", DB |-> next, disk |-> saved.disk]

\* the filter with the lower bound exclusive
keeps_strictMin(r, filters) ==
    LET props == r.properties
    IN  /\ Has(filters, "is_palindrome") => props.is_palindrome = filters["is_palindrome"]
        /\ Has(filters, "min_length") => ~(Num(props.length) <= filters["min_length"])
        /\ Has(filters, "max_length") => ~(Num(props.length) > filters["max_length"])
        /\ Has(filters, "word_count") => Num(props.word_count) = filters["word_count"]
        /\ Has(filters, "contains_character") =>
               filters["contains_character"] \in DOMAIN props.character_frequency_map

\* the predicate of records.filter(...)
keeps(r, filters) ==
    LET props == r.properties
    IN  /\ Has(filters, "is_palindrome") => props.is_palindrome = filters["is_palindrome"]
        /\ Has(filters, "min_length") => ~(Num(props.length) < filters["min_length"])
        /\ Has(filters, "max_length") => ~(Num(props.length) > filters["max_length"])
        /\ Has(filters, "word_count") => Num(props.word_count) = filters["word_count"]
        /\ Has(filters, "contains_character") =>
               filters["contains_character"] \in DOMAIN props.character_frequency_map

\* Array.prototype.sort is stable: insert r after every record that is at
\* least as new
RECURSIVE newestFirst(_)
newestFirst(records) ==
    IF records = <<>> THEN <<>>
    ELSE LET n == Len(records)
             sorted == newestFirst(SubSeq(records, 1, n - 1))
             r == records[n]
             before == SelectSeq(sorted, LAMBDA x : x.created_at >= r.created_at)
             after == SelectSeq(sorted, LAMBDA x : x.created_at < r.created_at)
         IN  before \o <<r>> \o after

listRecords(db, filters) ==
    newestFirst(SelectSeq(db, LAMBDA r : keeps(r, filters)))

-----------------------------------------------------------------------------
(* Conversions the routes apply to what the client sent.                   *)

AllIn(str, class) == \A i \in 1..Len(str) : Char(str, i) \in class

\* Number(raw) for a decimal literal: None for NaN.  The fixed point keeps
\* one fractional digit; further digits are dropped.
Number(raw) ==
    LET t == trim(raw)
        signed == t # "" /\ Head(t) \in {"+", "-"}
        body == IF signed THEN Tail(t) ELSE t
        sign == IF signed /\ Head(t) = "-" THEN -1 ELSE 1
        dots == {i \in 1..Len(body) : Char(body, i) = "."}
        dot == IF dots = {} THEN Len(body) + 1 ELSE Least(dots)
        whole == SubSeq(body, 1, dot - 1)
        frac == SubSeq(body, dot + 1, Len(body))
    IN  IF t = "" THEN Some(0)
        ELSE IF /\ AllIn(whole, DigitChars)
                /\ AllIn(frac, DigitChars)
                /\ whole \o frac # ""
        THEN Some(sign * (Num(parseInt(whole))
                           + (IF frac = "" THEN 0 ELSE parseInt(Char(frac, 1)))))
        ELSE None

UnreservedChars == UpperChars \cup LowerChars \cup DigitChars \cup CharsOf("-_.!~*'()")

RECURSIVE encodeURIComponent(_)
encodeURIComponent(str) ==
    IF str = "" THEN ""
    ELSE (IF Head(str) \in UnreservedChars THEN Head(str)
          ELSE "%" \o hexUpper(charCodeAt(Head(str))))
         \o encodeURIComponent(Tail(str))

\* every % must open an escape %XX of two hexadecimal digits; an escape of
\* a byte above 127 opens a multi-byte sequence, which no string of the
\* model completes
wellEscaped(str) ==
    \A i \in 1..Len(str) :
        Char(str, i) = "%" =>
            /\ i + 2 <= Len(str)
            /\ hexValue(Char(str, i + 1)) >= 0
            /\ hexValue(Char(str, i + 2)) >= 0
            /\ 16 * hexValue(Char(str, i + 1)) + hexValue(Char(str, i + 2)) <= 127

RECURSIVE unescape(_)
unescape(str) ==
    IF str = "" THEN ""
    ELSE IF Head(str) = "%"
    THEN fromCharCode(16 * hexValue(Char(str, 2)) + hexValue(Char(str, 3)))
            \o unescape(SubSeq(str, 4, Len(str)))
    ELSE Head(str) \o unescape(Tail(str))

\* None for a URIError
decodeURIComponent(str) == IF wellEscaped(str) THEN Some(unescape(str)) ELSE None

-----------------------------------------------------------------------------
(* routes.js: the handlers.  A response is its status and the parts of its *)
(* JSON body; a handler that writes also yields the store it leaves.       *)

Response(status, error, record, data, filters) ==
    [status |-> status, error |-> error, record |-> record, data |-> data,
     filters |-> filters]

Failure(status, error) == Response(status, error, None, None, None)

Listing(db, filters) == Response(200, "", None, Some(listRecords(db, filters)), Some(filters))

\* router.post('/strings'); body.kind is "missing", "number" or "string"
postStrings(db, onDisk, body, created_at, io) ==
    IF body.kind = "missing"
    THEN [res |-> Failure(400, "\"value\" field is required"), DB |-> db, disk |-> onDisk]
    ELSE IF body.kind # "string"
    THEN [res |-> Failure(422, "\"value\" must be a string"), DB |-> db, disk |-> onDisk]
    ELSE LET value == body.value
             props == analyzeString(value)
             id == props.sha256_hash
         IN  IF getById(db, id) # None
             THEN [res |-> Failure(409, "String already exists in the system"),
                   DB |-> db, disk |-> onDisk]
             ELSE LET record == [id |-> id, value |-> value, properties |-> props,
                                 created_at |-> created_at]
                      done == insertRecord(db, onDisk, record, io)
                  IN  [res |-> IF done.threw = ""
                               THEN Response(201, "", Some(record), None, None)
                               ELSE IF done.threw = "EXISTS"
                               THEN Failure(409, "String already exists")
                               ELSE Failure(500, "Server error"),
                       DB |-> done.DB, disk |-> done.disk]

ParamNames == {"is_palindrome", "min_length", "max_length", "word_count", "contains_character"}

NumericParams == {"min_length", "max_length", "word_count"}

\* lines 214-238: the first validation that fails, "" when none does
invalidParam(q) ==
    IF Has(q, "is_palindrome") /\ toLowerCase(q["is_palindrome"]) \notin {"true", "false"}
    THEN "is_palindrome must be true or false"
    ELSE IF Has(q, "min_length") /\ Number(q["min_length"]) = None
    THEN "min_length must be an integer"
    ELSE IF Has(q, "max_length") /\ Number(q["max_length"]) = None
    THEN "max_length must be an integer"
    ELSE IF Has(q, "word_count") /\ Number(q["word_count"]) = None
    THEN "word_count must be an integer"
    ELSE IF Has(q, "contains_character") /\ Len(q["contains_character"]) # 1
    THEN "contains_character must be a single character"
    ELSE ""

\* the filters object built from valid parameters
filtersOf(q) ==
    [k \in DOMAIN q |->
        IF k = "is_palindrome" THEN toLowerCase(q[k]) = "true"
        ELSE IF k \in NumericParams THEN Number(q[k])[1]
        ELSE q[k]]

\* router.get('/strings'); q maps the names of the present query parameters
\* to their raw text
getStrings(db, q) ==
    IF invalidParam(q) # "" THEN Failure(400, invalidParam(q))
    ELSE IF Conflicting(filtersOf(q))
    THEN Failure(400, "min_length cannot be greater than max_length")
    ELSE Listing(db, filtersOf(q))

\* router.get('/strings/filter-by-natural-language')
getNaturalLanguage(db, query) ==
    LET result == parseNaturalLanguage(query)
    IN  IF result.status # 200 THEN Failure(result.status, result.message)
        ELSE Listing(db, result.filters)

\* router.get('/strings/:string_value')
getStringValue(db, raw) ==
    LET decoded == decodeURIComponent(raw)
    IN  IF decoded = None THEN Failure(400, "Invalid URL-encoded string")
        ELSE LET rec == getById(db, sha256Hex(decoded[1]))
             IN  IF rec = None
                 THEN Failure(404, "String does not exist in the system")
                 ELSE Response(200, "", rec, None, None)

\* router.delete('/strings/:string_value'); what deleteById throws lands in
\* the handler's catch
deleteStringValue(db, onDisk, raw, io) ==
    LET decoded == decodeURIComponent(raw)
    IN  IF decoded = None
        THEN [res |-> Failure(400, "Invalid URL-encoded string"), DB |-> db, disk |-> onDisk]
        ELSE LET done == deleteById(db, onDisk, sha256Hex(decoded[1]), io)
             IN  [res |-> IF done.threw # ""
                          THEN Failure(400, "Invalid URL-encoded string")
                          ELSE IF ~done.ok
                          THEN Failure(404, "String does not exist in the system")
                          ELSE Response(204, "", None, None, None),
                  DB |-> done.DB, disk |-> done.disk]

-----------------------------------------------------------------------------
(* server.js and the router: which handler a request reaches.  Express     *)
(* matches paths without regard to case or to one trailing slash, tries    *)
(* the routes in the order of their registration, and hands a path         *)
(* parameter to the handler already URI-decoded.                           *)

stripSlash(path) ==
    IF Len(path) > 1 /\ Char(path, Len(path)) = "/"
    THEN SubSeq(path, 1, Len(path) - 1) ELSE path

ParamPrefix == "/strings/"

\* the route a request reaches: "post", "list", "nl", "param" or "fallback"
routeOf(method, path) ==
    LET base == toLowerCase(stripSlash(path))
    IN  IF base = "/strings"
        THEN (IF method = "POST" THEN "post" ELSE IF method = "GET" THEN "list" ELSE "fallback")
        ELSE IF method = "GET" /\ base = "/strings/filter-by-natural-language" THEN "nl"
        ELSE IF /\ method \in {"GET", "DELETE"}
                /\ StartsAt(base, ParamPrefix, 1)
                /\ "/" \notin CharsOf(SubSeq(base, Len(ParamPrefix) + 1, Len(base)))
        THEN "param"
        ELSE "fallback"

\* req.params.string_value; None when Express fails to decode it
paramOf(path) ==
    decodeURIComponent(SubSeq(stripSlash(path), Len(ParamPrefix) + 1, Len(stripSlash(path))))

NoBody == [kind |-> "missing", value |-> ""]

\* the handler of the route, given the decoded path parameter
dispatch(route, param, db, onDisk, method, q, query, body, created_at, io) ==
    LET same(res) == [res |-> res, DB |-> db, disk |-> onDisk]
    IN  CASE route = "post" -> postStrings(db, onDisk, body, created_at, io)
          [] route = "list" -> same(getStrings(db, q))
          [] route = "nl" -> same(getNaturalLanguage(db, query))
          [] route = "param" /\ param = None -> same(Failure(500, "Server error"))
          [] route = "param" /\ param # None /\ method = "GET" ->
                same(getStringValue(db, param[1]))
          [] route = "param" /\ param # None /\ method = "DELETE" ->
                deleteStringValue(db, onDisk, param[1], io)
          [] OTHER -> same(Failure(404, "Not found"))

\* the application as a whole: one request in, one response out
handle(db, onDisk, method, path, q, query, body, created_at, io) ==
    dispatch(routeOf(method, path), paramOf(path), db, onDisk, method, q, query, body,
             created_at, io)

-----------------------------------------------------------------------------
(* What the clients send.                                                  *)

Values == {"", "a b", "%", "filter-by-natural-language"}

\* the values the service is asked to store
PostedValues == {"", "a b", "%"}

Bodies ==
    {[kind |-> "string", value |-> v] : v \in PostedValues}
        \cup {NoBody, [kind |-> "number", value |-> ""]}

RawParams ==
    [is_palindrome |-> {"True", "false", "yes"},
     min_length |-> {"3", "1.5", "", "abc"},
     max_length |-> {"1", "3", "x"},
     word_count |-> {"1", "2", "1.5"},
     contains_character |-> {"a", "%", "ab", ""}]

\* the query strings of GET /strings with at most MaxParams parameters
Queries ==
    UNION {[names -> UNION {RawParams[k] : k \in names}] : names \in SUBSET ParamNames}

ListQueries ==
    {q \in Queries : Cardinality(DOMAIN q) <= MaxParams /\ \A k \in DOMAIN q : q[k] \in RawParams[k]}

TextQueries ==
    {None, <<"palindromic strings">>, <<"longer than 1 shorter than 1">>}

Request(op, method, path, value, q, query, body) ==
    [op |-> op, method |-> method, path |-> path, value |-> value, q |-> q,
     query |-> query, body |-> body]

NoRequest == Request("none", "", "", "", NoFilters, None, NoBody)

-----------------------------------------------------------------------------
(* The service: one action per kind of request.                            *)

Init ==
    /\ DB = <<>>
    /\ disk = <<>>
    /\ now = 0
    /\ failures = 0
    /\ resp = [req |-> NoRequest, res |-> Failure(0, "")]
    /\ input = <<>>
    /\ parsed = <<>>

\* the request is served to completion: the response and the store it leaves
Serve(req, created_at, io) ==
    \E done \in {handle(DB, disk, req.method, req.path, req.q, req.query, req.body,
                         created_at, io)} :
        /\ Len(done.DB) <= MaxRecords
        /\ io # "ok" => failures < MaxFailures
        /\ failures' = IF io = "ok" THEN failures ELSE failures + 1
        /\ DB' = done.DB
        /\ disk' = done.disk
        /\ now' = created_at
        /\ resp' = [req |-> req, res |-> done.res]
        /\ UNCHANGED <<input, parsed>>

\* analyze-and-store; new Date() is not before the previous reading
PostString ==
    \E body \in Bodies, io \in IoOutcomes, created_at \in now..Min(now + 1, MaxClock) :
        Serve(Request("insert", "POST", "/strings", body.value, NoFilters, None, body),
              created_at, io)

\* lookup of the original string value
GetString ==
    \E value \in Values :
        Serve(Request("lookup", "GET", ParamPrefix \o encodeURIComponent(value), value,
                      NoFilters, None, NoBody), now, "ok")

DeleteString ==
    \E value \in Values, io \in IoOutcomes :
        Serve(Request("delete", "DELETE", ParamPrefix \o encodeURIComponent(value), value,
                      NoFilters, None, NoBody), now, io)

\* the query strings the service is driven with
ServiceQueries ==
    {NoFilters, [min_length |-> "2", max_length |-> "1"], [min_length |-> "1.5"],
     [is_palindrome |-> "True", word_count |-> "x"]}

GetStrings ==
    \E q \in ServiceQueries :
        Serve(Request("list", "GET", "/strings", "", q, None, NoBody), now, "ok")

GetNaturalLanguage ==
    \E query \in TextQueries :
        Serve(Request("nl", "GET", "/strings/filter-by-natural-language", "", NoFilters,
                      query, NoBody), now, "ok")

Next ==
    \/ PostString
    \/ GetString
    \/ DeleteString
    \/ GetStrings
    \/ GetNaturalLanguage

Spec == Init /\ [][Next]_vars

-----------------------------------------------------------------------------
(* The filtered list as a function of the store and the request: every     *)
(* store that successful inserts build, one list request against it.       *)

lastStamp(db) == IF db = <<>> THEN 0 ELSE db[Len(db)].created_at

RECURSIVE StoresOf(_)
StoresOf(n) ==
    IF n = 0 THEN {<<>>}
    ELSE LET smaller == StoresOf(n - 1)
         IN  smaller \cup
             {postStrings(db, db, [kind |-> "string", value |-> v], t, "ok").DB :
                 db \in smaller, v \in Values, t \in 0..MaxClock}

Stores == {db \in StoresOf(MaxRecords) :
              \A i \in 1..Len(db) : i > 1 => db[i - 1].created_at <= db[i].created_at}

InitFilter ==
    /\ DB \in Stores
    /\ disk = DB
    /\ now = lastStamp(DB)
    /\ failures = 0
    /\ resp = [req |-> NoRequest, res |-> Failure(0, "")]
    /\ input = <<>>
    /\ parsed = <<>>

FilterStrings ==
    /\ resp.req.op = "none"
    /\ \E q \in ListQueries :
          Serve(Request("list", "GET", "/strings", "", q, None, NoBody), now, "ok")

FilterByText ==
    /\ resp.req.op = "none"
    /\ GetNaturalLanguage

NextFilter == FilterStrings \/ FilterByText

SpecFilter == InitFilter /\ [][NextFilter]_vars

-----------------------------------------------------------------------------
(* parseNaturalLanguage as a function of the query text.  A query is a     *)
(* list of phrases joined by spaces; each phrase records the rule of the   *)
(* parser's description it is an instance of, with its number or its       *)
(* character.                                                              *)

Phrase(text, rule, n, ch) == [text |-> text, rule |-> rule, n |-> n, ch |-> ch]

Phrases ==
    <<Phrase("palindromic", "palindrome", 0, ""),
      Phrase("Palindrome strings", "palindrome", 0, ""),
      Phrase("palindromes", "none", 0, ""),
      Phrase("single word", "word", 0, ""),
      Phrase("One Word", "word", 0, ""),
      Phrase("longer than 10", "longer", 10, ""),
      Phrase("Longer than 2", "longer", 2, ""),
      Phrase("at least 5", "atleast", 5, ""),
      Phrase("at least 12", "atleast", 12, ""),
      Phrase("shorter than 4", "shorter", 4, ""),
      Phrase("shorter than 20", "shorter", 20, ""),
      Phrase("containing the letter z", "letter", 0, "z"),
      Phrase("containing q", "simple", 0, "q"),
      Phrase("'x'", "quoted", 0, "x"),
      Phrase("first vowel", "vowel", 0, "a"),
      Phrase("containing apples", "none", 0, ""),
      Phrase("containing the first vowel", "vowel", 0, "a"),
      Phrase("strings", "none", 0, ""),
      Phrase("gibberish query", "none", 0, "")>>

PhraseLists == UNION {[1..n -> 1..Len(Phrases)] : n \in 0..MaxPhrases}

RECURSIVE joined(_)
joined(ps) ==
    IF ps = <<>> THEN ""
    ELSE IF Len(ps) = 1 THEN Phrases[ps[1]].text
    ELSE Phrases[ps[1]].text \o " " \o joined(Tail(ps))

ParserInputs ==
    {[phrases |-> ps, query |-> Some(joined(ps))] : ps \in PhraseLists}
        \cup {[phrases |-> <<>>, query |-> None],
              [phrases |-> <<>>, query |-> <<"   ">>],
              [phrases |-> <<>>, query |-> <<"one word", "at least 1">>]}

InitParse ==
    /\ DB = <<>>
    /\ disk = <<>>
    /\ now = 0
    /\ failures = 0
    /\ resp = [req |-> NoRequest, res |-> Failure(0, "")]
    /\ input \in ParserInputs
    /\ parsed = <<>>

ParseQuery ==
    /\ parsed = <<>>
    /\ parsed' = parseNaturalLanguage(input.query)
    /\ UNCHANGED <<DB, disk, now, failures, resp, input>>

NextParse == ParseQuery

SpecParse == InitParse /\ [][NextParse]_vars

-----------------------------------------------------------------------------
(* Properties of the service (Spec).                                       *)

StoredAs(db, value) == {r \in Range(db) : r.value = value}

InsertOfString(r) == r.req.op = "insert" /\ r.req.body.kind = "string"

\* C1: an analyze-and-store request for a string that already has a record
\* fails with 409 (AlreadyExists), returns no record, and leaves the store,
\* in memory and on disk, exactly as it was.
C1_DuplicateInsertRejected ==
    [][(InsertOfString(resp') /\ StoredAs(DB, resp'.req.value) # {}) =>
          /\ resp'.res.status = 409
          /\ resp'.res.record = None
          /\ DB' = DB
          /\ disk' = disk]_vars

C1_Witness ==
    /\ InsertOfString(resp)
    /\ resp.res.status = 409
    /\ StoredAs(DB, resp.req.value) # {}

\* C2: the lookup with the original string s that follows a successful
\* insert of s returns the record the insert returned, and the lookup that
\* follows a successful delete of s yields NotFound (404) -- for every s.
C2_RoundTrip ==
    [][(resp'.req.op = "lookup" /\ resp'.req.value = resp.req.value) =>
          /\ (InsertOfString(resp) /\ resp.res.status = 201) =>
                 /\ resp'.res.status = 200
                 /\ resp'.res.record = resp.res.record
          /\ (resp.req.op = "delete" /\ resp.res.status = 204) =>
                 resp'.res.status = 404]_vars

\* a request whose filter set has both bounds, with min_length > max_length
ConflictingRequest(r) ==
    \/ /\ r.req.op = "list"
       /\ invalidParam(r.req.q) = ""
       /\ Conflicting(filtersOf(r.req.q))
    \/ /\ r.req.op = "nl"
       /\ Len(r.req.query) = 1
       /\ Conflicting(accumulate(trim(toLowerCase(r.req.query[1]))))

\* C3: a filter set with min_length > max_length is refused with the same
\* error kind on the structured path and on the natural-language path, and
\* no record list is returned.
C3_SameConflictKind ==
    [][ConflictingRequest(resp') =>
          /\ resp'.res.data = None
          /\ ConflictingRequest(resp) => resp'.res.status = resp.res.status]_vars

\* the text of an integer: an optional sign and one or more digits
IntegerText(raw) ==
    LET body == IF raw # "" /\ Head(raw) \in {"+", "-"} THEN Tail(raw) ELSE raw
    IN  body # "" /\ AllIn(body, DigitChars)

WellTyped(k, raw) ==
    CASE k = "is_palindrome" -> toLowerCase(raw) \in {"true", "false"}
      [] k \in NumericParams -> IntegerText(raw)
      [] k = "contains_character" -> Len(raw) = 1

\* C4: a list request with a present parameter that does not parse to its
\* type is refused with 400 (InvalidFilter) and no list is evaluated.
C4_IllTypedRefused ==
    (resp.req.op = "list" /\ \E k \in DOMAIN resp.req.q : ~WellTyped(k, resp.req.q[k])) =>
        /\ resp.res.status = 400
        /\ resp.res.data = None

\* what section 4.4 of the description asks of a record
Agrees(r, filters) ==
    /\ Has(filters, "is_palindrome") => r.properties.is_palindrome = filters["is_palindrome"]
    /\ Has(filters, "min_length") => Num(r.properties.length) >= filters["min_length"]
    /\ Has(filters, "max_length") => Num(r.properties.length) <= filters["max_length"]
    /\ Has(filters, "word_count") => Num(r.properties.word_count) = filters["word_count"]
    /\ Has(filters, "contains_character") =>
          /\ filters["contains_character"] \in DOMAIN r.properties.character_frequency_map
          /\ r.properties.character_frequency_map[filters["contains_character"]] > 0

\* C7: a list that is returned holds exactly the stored records that agree
\* with every present field of the filter set, each of them once; with no
\* field present that is every stored record.
C7_ListIsExactlyTheMatches ==
    (resp.req.op \in {"list", "nl"} /\ resp.res.status = 200) =>
        LET filters == resp.res.filters[1]
            data == resp.res.data[1]
            matching == {r \in Range(DB) : Agrees(r, filters)}
        IN  /\ Range(data) = matching
            /\ Len(data) = Cardinality(matching)
            /\ DOMAIN filters = {} => Len(data) = Len(DB)

C7_Witness ==
    /\ resp.req.op = "list"
    /\ resp.res.status = 200
    /\ Cardinality(DOMAIN resp.res.filters[1]) = 2
    /\ Len(resp.res.data[1]) >= 1
    /\ Len(resp.res.data[1]) < Len(DB)

\* the delete request for the value reaches deleteById with the id of the
\* value
DeleteReaches(value) ==
    LET path == ParamPrefix \o encodeURIComponent(value)
    IN  /\ routeOf("DELETE", path) = "param"
        /\ paramOf(path) # None
        /\ decodeURIComponent(paramOf(path)[1]) = Some(value)

C10_WriteThrough == DB = disk

\* the request just served stored the value / removed the value, and said so
InsertSucceeded(r, value) ==
    InsertOfString(r) /\ r.req.value = value /\ r.res.status = 201

DeleteSucceeded(r, value) ==
    r.req.op = "delete" /\ r.req.value = value /\ r.res.status = 204

\* C11: every stored record has id = properties.sha256_hash = digest(value),
\* no two stored records share an id or a value, and a string has a stored
\* record exactly when its last successful insert was not followed by a
\* successful delete: a step makes a string stored only by a successful
\* insert of it and not stored only by a successful delete of it.
C11_StoreKeys ==
    [][/\ \A i \in 1..Len(DB') :
             /\ DB'[i].id = DB'[i].properties.sha256_hash
             /\ DB'[i].id = sha256Hex(DB'[i].value)
       /\ \A i, j \in 1..Len(DB') :
             i # j => DB'[i].id # DB'[j].id /\ DB'[i].value # DB'[j].value
       /\ \A value \in Values :
             StoredAs(DB', value) # {} <=>
                 IF InsertSucceeded(resp', value) THEN TRUE
                 ELSE IF DeleteSucceeded(resp', value) THEN FALSE
                 ELSE StoredAs(DB, value) # {}]_vars

\* the part of C11 that is about the keys alone
StoreKeysWellFormed ==
    /\ \A i \in 1..Len(DB) :
          /\ DB[i].id = DB[i].properties.sha256_hash
          /\ DB[i].id = sha256Hex(DB[i].value)
    /\ \A i, j \in 1..Len(DB) : i # j => DB[i].id # DB[j].id /\ DB[i].value # DB[j].value

-----------------------------------------------------------------------------
(* Properties of the parser (SpecParse).                                   *)

\* the numbers of the phrases of one rule, in the order of the query
NumbersOf(ps, rule) ==
    LET at == {i \in 1..Len(ps) : Phrases[ps[i]].rule = rule}
    IN  IF at = {} THEN None ELSE Some(Phrases[ps[Least(at)]].n)

ExpectedMin(ps) ==
    LET longer == NumbersOf(ps, "longer")
        atLeast == NumbersOf(ps, "atleast")
    IN  IF longer # None /\ atLeast # None THEN Some(Max(longer[1] + 1, atLeast[1]))
        ELSE IF longer # None THEN Some(longer[1] + 1)
        ELSE IF atLeast # None THEN Some(Max(0, atLeast[1]))
        ELSE None

ExpectedMax(ps) ==
    LET shorter == NumbersOf(ps, "shorter")
    IN  IF shorter # None THEN Some(shorter[1] - 1) ELSE None

FieldIs(filters, k, expected) ==
    IF expected = None THEN ~Has(filters, k)
    ELSE Has(filters, k) /\ filters[k] = Num(expected[1])

\* C5: 'longer than N' gives min_length N + 1, 'at least N' raises it to N
\* but never lowers it, 'shorter than N' gives max_length N - 1, and a query
\* with none of them leaves both bounds absent; the bounds so derived are
\* the ones returned, and the ones the conflict check refuses.
C5_LengthBounds ==
    (parsed # <<>> /\ Len(input.query) = 1) =>
        LET min == ExpectedMin(input.phrases)
            max == ExpectedMax(input.phrases)
        IN  /\ parsed.status = 200 =>
                 /\ FieldIs(parsed.filters, "min_length", min)
                 /\ FieldIs(parsed.filters, "max_length", max)
            /\ parsed.status = 422 <=> (min # None /\ max # None /\ min[1] > max[1])

C5_Witness ==
    /\ parsed # <<>>
    /\ parsed.status = 200
    /\ NumbersOf(input.phrases, "longer") = Some(10)
    /\ NumbersOf(input.phrases, "atleast") = Some(5)
    /\ parsed.filters["min_length"] = Num(11)

ExpectedCharacter(ps) ==
    LET of(rule) == {i \in 1..Len(ps) : Phrases[ps[i]].rule = rule}
        first(rule) == Phrases[ps[Least(of(rule))]].ch
    IN  IF of("letter") # {} THEN Some(first("letter"))
        ELSE IF of("simple") # {} THEN Some(first("simple"))
        ELSE IF of("quoted") # {} THEN Some(first("quoted"))
        ELSE IF of("vowel") # {} THEN Some("a")
        ELSE None

\* C9: contains_character comes from the first rule that applies, and
\* 'containing X' applies only to a single alphanumeric character X: a
\* longer word after 'containing ' does not give its first letter.
C9_ContainmentRules ==
    (parsed # <<>> /\ Len(input.query) = 1 /\ parsed.status = 200) =>
        LET expected == ExpectedCharacter(input.phrases)
        IN  IF expected = None THEN ~Has(parsed.filters, "contains_character")
            ELSE /\ Has(parsed.filters, "contains_character")
                 /\ parsed.filters["contains_character"] = expected[1]

====
